---- MODULE Spec2Model ----
(***************************************************************************)
(* Model of the blog front end: the session state holder (auth.js), the    *)
(* post API (api.posts.js), the profile validation (api.profile.js) and    *)
(* the configuration they read (config.js).                                *)
(*                                                                         *)
(* A JavaScript string is a sequence of one-character strings.  A          *)
(* JavaScript value is a record [t |-> type tag, v |-> payload]; an object *)
(* literal is a function from the keys it has to JavaScript values.        *)
(***************************************************************************)
EXTENDS Integers, Sequences, FiniteSets, TLC

(***************************************************************************)
(* config.js                                                               *)
(***************************************************************************)
maxTitleLength == 120
maxTagLength == 16
maxTagCount == 10
maxDisplayNameLength == 40
maxBioLength == 500
IdShapeLength == 20

\* The admin allow-list.  The code tests membership of a list; the model's
\* list has two entries so that an admin who does not own a post exists.
ADMIN_UIDS == {1, 2}
\* The identities the auth provider can deliver: the admins and one other.
Uids == ADMIN_UIDS \cup {3}
\* null, the value of "no identity"
NoUser == 0

(***************************************************************************)
(* JavaScript values and strings                                           *)
(***************************************************************************)
Undef == [t |-> "undefined", v |-> <<>>]
Null == [t |-> "null", v |-> <<>>]
Str(s) == [t |-> "string", v |-> s]
Num(n) == [t |-> "number", v |-> <<n>>]
Arr(a) == [t |-> "array", v |-> a]

Rep(c, n) == [i \in 1..n |-> c]

Lower == {"a","b","c","d","e","f","g","h","i","j","k","l","m","n","o","p","q","r","s","t","u","v","w","x","y","z"}
Upper == {"A","B","C","D","E","F","G","H","I","J","K","L","M","N","O","P","Q","R","S","T","U","V","W","X","Y","Z"}
Digit == {"0","1","2","3","4","5","6","7","8","9"}
Alnum == Lower \cup Upper \cup Digit
Whitespace == {" ", "\t", "\n"}

\* obj.key, undefined when the object has no such key
Get(obj, k) == IF k \in DOMAIN obj THEN obj[k] ELSE Undef

\* value !== undefined
Defined(x) == x.t # "undefined"

\* JavaScript truthiness of a value
Truthy(x) ==
  CASE x.t = "string" -> x.v # <<>>
    [] x.t = "number" -> x.v # <<0>>
    [] x.t = "array" -> TRUE
    [] OTHER -> FALSE

RECURSIVE TrimStart(_)
TrimStart(s) ==
  IF s # <<>> /\ Head(s) \in Whitespace THEN TrimStart(Tail(s)) ELSE s

RECURSIVE TrimEnd(_)
TrimEnd(s) ==
  IF s # <<>> /\ s[Len(s)] \in Whitespace
  THEN TrimEnd(SubSeq(s, 1, Len(s) - 1))
  ELSE s

TrimOne(s) ==
  LET a == IF s # <<>> /\ s[1] \in Whitespace THEN Tail(s) ELSE s
  IN IF a # <<>> /\ a[Len(a)] \in Whitespace THEN SubSeq(a, 1, Len(a) - 1) ELSE a

\* String.prototype.trim
Trim(s) == TrimEnd(TrimStart(s))

\* The elements of a sequence
Range(s) == {s[i] : i \in 1..Len(s)}

\* Array.prototype.slice(0, n)
Slice(a, n) == SubSeq(a, 1, IF Len(a) < n THEN Len(a) ELSE n)

\* Array.prototype.filter(tag => tag !== null)
RECURSIVE FilterNotNull(_)
FilterNotNull(a) ==
  IF a = <<>> THEN <<>>
  ELSE IF Head(a).t # "null" THEN <<Head(a)>> \o FilterNotNull(Tail(a))
  ELSE FilterNotNull(Tail(a))

\* Object spread {...a, ...b}: the keys of b win
Merge(a, b) == [k \in (DOMAIN a) \cup (DOMAIN b) |-> IF k \in DOMAIN b THEN b[k] ELSE a[k]]

NoFields == [k \in {} |-> Undef]

\* The outcome of a call that may throw: err = "none" on a normal return,
\* "pending" while the call has not been made.
Ok(val) == [err |-> "none", msg |-> "", val |-> val]
Throw(err, msg) == [err |-> err, msg |-> msg, val |-> NoFields]
Pending == Throw("pending", "")

(***************************************************************************)
(* Validation (api.posts.js, api.profile.js)                               *)
(***************************************************************************)
HasPrefix(s, p) == Len(s) >= Len(p) /\ SubSeq(s, 1, Len(p)) = p

\* new URL(string) succeeds and its protocol is http: or https:.  The URL
\* parser is the platform's; the model accepts a scheme followed by "//" and
\* a non-empty host.
isValidURL(s) ==
  \/ HasPrefix(s, <<"h","t","t","p",":","/","/">>) /\ Len(s) > 7
  \/ HasPrefix(s, <<"h","t","t","p","s",":","/","/">>) /\ Len(s) > 8

\* /^[a-zA-Z0-9]+([a-zA-Z0-9-]*[a-zA-Z0-9])?$/
isValidSlug(s) ==
  /\ s # <<>>
  /\ \A i \in 1..Len(s) : s[i] \in Alnum \cup {"-"}
  /\ s[1] \in Alnum
  /\ s[Len(s)] \in Alnum

LowerChars == <<"a","b","c","d","e","f","g","h","i","j","k","l","m","n","o","p","q","r","s","t","u","v","w","x","y","z">>
UpperChars == <<"A","B","C","D","E","F","G","H","I","J","K","L","M","N","O","P","Q","R","S","T","U","V","W","X","Y","Z">>

\* String.prototype.toLowerCase
toLowerCase(s) ==
  [i \in 1..Len(s) |->
     IF s[i] \in Upper THEN LowerChars[CHOOSE k \in 1..Len(UpperChars) : UpperChars[k] = s[i]]
     ELSE s[i]]

\* [\w\s-]: the characters replace(/[^\w\s-]/g, '') keeps
SlugSourceChar(c) == c \in Alnum \cup {"_"} \cup Whitespace \cup {"-"}

\* [\s_-]: the characters a run of which becomes one hyphen
SlugSeparator(c) == c \in Whitespace \cup {"_", "-"}

RECURSIVE DropSeparators(_)
DropSeparators(s) ==
  IF s # <<>> /\ SlugSeparator(Head(s)) THEN DropSeparators(Tail(s)) ELSE s

\* replace(/[\s_-]+/g, '-')
RECURSIVE CollapseSeparators(_)
CollapseSeparators(s) ==
  IF s = <<>> THEN <<>>
  ELSE IF SlugSeparator(Head(s)) THEN <<"-">> \o CollapseSeparators(DropSeparators(s))
  ELSE <<Head(s)>> \o CollapseSeparators(Tail(s))

\* replace(/^-+|-+$/g, '')
RECURSIVE TrimHyphens(_)
TrimHyphens(s) ==
  IF s # <<>> /\ Head(s) = "-" THEN TrimHyphens(Tail(s))
  ELSE IF s # <<>> /\ s[Len(s)] = "-" THEN TrimHyphens(SubSeq(s, 1, Len(s) - 1))
  ELSE s

SlugMaxLength == 50

\* generateSlug(title) for a string title
generateSlug(title) ==
  IF title = <<>> THEN <<>>
  ELSE Slice(TrimHyphens(CollapseSeparators(SelectSeq(toLowerCase(title), SlugSourceChar))),
             SlugMaxLength)

Draft == <<"d","r","a","f","t">>
Published == <<"p","u","b","l","i","s","h","e","d">>

\* The first tag, in array order, on which the map callback throws ("" if none)
RECURSIVE TagThrow(_)
TagThrow(tags) ==
  IF tags = <<>> THEN ""
  ELSE IF Head(tags).t # "string" THEN "tag-not-string"
  ELSE IF Len(Trim(Head(tags).v)) = 0 THEN TagThrow(Tail(tags))
  ELSE IF Len(Trim(Head(tags).v)) > maxTagLength THEN "tag-too-long"
  ELSE TagThrow(Tail(tags))

\* tags.map(trim or null)
TagMap(tags) ==
  [i \in 1..Len(tags) |->
     IF Len(Trim(tags[i].v)) = 0 THEN Null ELSE Str(Trim(tags[i].v))]

TagsTooManyNever(tags) == FALSE

\* data.tags.length > APP_CONFIG.maxTagCount
TagsTooMany(tags) == Len(tags.v) > maxTagCount

\* The tags block shared by validatePostData and validateProfileData
ValidateTags(tags) ==
  IF tags.t # "array" THEN Throw("ValidationError", "tags-not-array")
  ELSE IF TagsTooMany(tags) THEN Throw("ValidationError", "too-many-tags")
  ELSE IF TagThrow(tags.v) # "" THEN Throw("ValidationError", TagThrow(tags.v))
  ELSE Ok(Arr(Slice(FilterNotNull(TagMap(tags.v)), maxTagCount)))

\* A length-limited string field: typeof check, length check, trim
ValidateString(x, max, name) ==
  IF x.t # "string" THEN Throw("ValidationError", name)
  ELSE IF Len(x.v) > max THEN Throw("ValidationError", name)
  ELSE Ok(Str(Trim(x.v)))

\* A URL field: typeof check, trim, empty or valid URL
ValidateUrl(x, name) ==
  IF x.t # "string" THEN Throw("ValidationError", name)
  ELSE IF Trim(x.v) # <<>> /\ ~isValidURL(Trim(x.v)) THEN Throw("InvalidURL", name)
  ELSE Ok(Str(Trim(x.v)))

ValidateTitle(x, isUpdate) ==
  IF ~isUpdate /\ ~Truthy(x) THEN Throw("RequiredFieldMissing", "title")
  ELSE ValidateString(x, maxTitleLength, "title")

ValidateContent(x, isUpdate) ==
  IF ~isUpdate /\ ~Truthy(x) THEN Throw("RequiredFieldMissing", "contentHtml")
  ELSE IF x.t # "string" THEN Throw("ValidationError", "contentHtml")
  ELSE Ok(Str(Trim(x.v)))

ValidateStatus(x) ==
  IF ~(x.t = "string" /\ x.v \in {Draft, Published}) THEN Throw("InvalidStatus", "status")
  ELSE Ok(x)

ValidateSlug(x) ==
  IF x.t # "string" THEN Throw("ValidationError", "slug")
  ELSE IF Trim(x.v) # <<>> /\ ~isValidSlug(Trim(x.v)) THEN Throw("InvalidSlug", "slug")
  ELSE Ok(Str(Trim(x.v)))

PostFields == <<"title", "contentHtml", "status", "tags", "coverUrl", "slug">>
ProfileFields == <<"displayName", "nickname", "bio", "tags", "photoURL", "siteBgUrl", "authorBgUrl">>

\* One field block of validatePostData (mode "create" or "update") or of
\* validateProfileData (mode "profile")
FieldCheck(mode, k, x) ==
  IF mode = "profile"
  THEN CASE k = "displayName" -> ValidateString(x, maxDisplayNameLength, k)
         [] k = "nickname" -> ValidateString(x, maxDisplayNameLength, k)
         [] k = "bio" -> ValidateString(x, maxBioLength, k)
         [] k = "tags" -> ValidateTags(x)
         [] OTHER -> ValidateUrl(x, k)
  ELSE CASE k = "title" -> ValidateTitle(x, mode = "update")
         [] k = "contentHtml" -> ValidateContent(x, mode = "update")
         [] k = "status" -> ValidateStatus(x)
         [] k = "tags" -> ValidateTags(x)
         [] k = "coverUrl" -> ValidateUrl(x, k)
         [] OTHER -> ValidateSlug(x)

\* The field blocks run in source order; the first throw ends the call, and
\* a block is skipped when data[field] === undefined.
RECURSIVE ValidateFrom(_, _, _, _)
ValidateFrom(fields, data, mode, validated) ==
  IF fields = <<>> THEN Ok(validated)
  ELSE LET k == Head(fields)
           x == Get(data, k)
       IN IF ~Defined(x) THEN ValidateFrom(Tail(fields), data, mode, validated)
          ELSE LET r == FieldCheck(mode, k, x)
               IN IF r.err # "none" THEN r
                  ELSE ValidateFrom(Tail(fields), data, mode,
                                    Merge(validated, [f \in {k} |-> r.val]))

validatePostData(data, isUpdate) ==
  ValidateFrom(PostFields, data, IF isUpdate THEN "update" ELSE "create", NoFields)

validateProfileData(data) ==
  ValidateFrom(ProfileFields, data, "profile", NoFields)

(***************************************************************************)
(* State                                                                   *)
(***************************************************************************)
VARIABLES
  posts,       \* the posts collection: document id -> document data
  nextId,      \* how many document ids the store has generated
  now,         \* the clock read by timestamp.now()
  calls,       \* the API calls in flight, one record per caller
  authUser,    \* auth.currentUser of the provider (null until known)
  authInit,    \* the provider has delivered its first change notification
  overlapped,  \* history: some call was invoked while another was in flight
  blocked,     \* history: ids of the documents that made a createPost throw SlugConflict
  ncalls,      \* history: how many calls have been invoked
  workload,    \* the workload of the run
  currentUser,         \* auth.js: let currentUser
  authStateListeners,  \* auth.js: let authStateListeners
  handles,     \* the callbacks that hold an unsubscribe function of onAuthChange
  delivered,   \* history: the identities each callback has been invoked with
  nevents,     \* history: how many subscriptions and notifications have happened
  vmode, vin, vout,  \* the validation harness: mode, input, outcome
  upload,      \* the uploadImage call: its position, file, folder and outcome
  requests,    \* how many requests have been sent to the image host
  profiles,    \* the profiles collection: uid -> document data
  pcalls       \* the profile API calls in flight, one record per caller

storeVars == <<posts, nextId, now, calls, overlapped, blocked, ncalls, workload>>
providerVars == <<authUser, authInit>>
listenerVars == <<currentUser, authStateListeners, handles, delivered, nevents>>
validateVars == <<vmode, vin, vout>>
uploadVars == <<upload, requests>>
profileVars == <<profiles, pcalls>>
sideVars == <<validateVars, uploadVars, profileVars>>
vars == <<posts, nextId, now, calls, authUser, authInit, overlapped, blocked, ncalls,
          workload, currentUser, authStateListeners, handles, delivered, nevents,
          vmode, vin, vout, upload, requests, profiles, pcalls>>

(***************************************************************************)
(* Bounds and inputs                                                       *)
(***************************************************************************)
MaxPosts == 2
\* The number of calls invoked in a run
MaxCalls == 4
\* The number of subscriptions and notifications in a run
MaxUploads == 2
\* The latest time the clock reaches
MaxTime == 2
MaxAuthEvents == 4
Callers == {"c1", "c2"}
\* Callers are interchangeable: a caller is used only while the callers
\* before it are busy.
Before(d, c) == d = "c1" /\ c = "c2"

DigitChars == <<"1","2","3","4","5","6","7","8","9">>
\* The n-th generated document id: 20 alphanumeric characters
PostId(n) == Rep("I", 19) \o <<DigitChars[n]>>

TitleA == <<"a">>
TitleB == <<"b">>
Body == <<"c">>
ShortSlug == <<"s","-","1">>
LongSlug == Rep("s", 21)
BadSlug == <<"-","s">>

Obj2(k1, v1, k2, v2) == (k1 :> v1) @@ (k2 :> v2)
Base == Obj2("title", Str(TitleA), "contentHtml", Str(Body))

NoTitle == ("contentHtml" :> Str(Body))
EmptyTitle == Obj2("title", Str(<<>>), "contentHtml", Str(Body))
WithLongSlug == Base @@ ("slug" :> Str(LongSlug))
WithShortSlug == Base @@ Obj2("slug", Str(ShortSlug), "status", Str(Published))
BadStatus == Base @@ ("status" :> Str(<<"x">>))

IdInputs == {PostId(n) : n \in 1..MaxPosts}

\* The workloads of a run: the identities the provider delivers, the
\* arguments callers pass, and the operations they use.
Workloads ==
  { [name |-> "slugs", identities |-> {1},
     creates |-> {WithLongSlug, WithShortSlug},
     patches |-> {("slug" :> Str(LongSlug))},
     keys |-> IdInputs \cup {LongSlug, ShortSlug},
     sugar |-> FALSE],
    [name |-> "owners", identities |-> {1, 2},
     creates |-> {Base},
     patches |-> {("title" :> Str(TitleB))},
     keys |-> IdInputs,
     sugar |-> TRUE],
    [name |-> "guards", identities |-> {NoUser, 1, 3},
     creates |-> {Base, NoTitle, EmptyTitle, BadStatus},
     patches |-> {("title" :> Str(TitleB))},
     keys |-> {PostId(1)},
     sugar |-> TRUE] }

(***************************************************************************)
(* Session state holder (auth.js)                                          *)
(***************************************************************************)
\* The value auth.currentUser never takes: the provider reports null, not
\* undefined, while it has not initialised.
Undefined == -1

isAdminAnyUser(user) == user # NoUser

isAdmin(user) == user # NoUser /\ user \in ADMIN_UIDS

\* waitForAuthInit: settles at once with auth.currentUser unless that is undefined
waitForAuthInit ==
  IF authUser # Undefined
  THEN [settled |-> TRUE, user |-> authUser]
  ELSE [settled |-> FALSE, user |-> NoUser]

\* requireAuth on the identity waitForAuthInit resolved to
requireAuth(user) == IF user = NoUser THEN "Unauthenticated" ELSE "none"

\* requireAdmin on the identity waitForAuthInit resolved to
requireAdmin(user) ==
  IF requireAuth(user) # "none" THEN requireAuth(user)
  ELSE IF ~isAdmin(user) THEN "Forbidden"
  ELSE "none"

(***************************************************************************)
(* Post API (api.posts.js)                                                 *)
(***************************************************************************)
Idle ==
  [op |-> "none", pc |-> "idle", key |-> <<>>, data |-> NoFields, user |-> NoUser,
   existing |-> NoFields, validated |-> NoFields, result |-> "", preInit |-> FALSE,
   steps |-> <<>>, invalidArgs |-> FALSE]

\* History: the call starts the step `name`
Step(rec, name) == [rec EXCEPT !.steps = Append(@, name)]

InFlight(c) == calls[c].pc \notin {"idle", "done"}

\* The call settles; its arguments are no longer live
Done(rec, res) ==
  [rec EXCEPT !.pc = "done", !.result = res, !.data = NoFields, !.validated = NoFields]

\* { id: doc.id, ...doc.data() }
Doc(id) == Merge(("id" :> id), posts[id])

SlugMatchesNone(slug) == {}

\* The documents a where('slug', '==', slug) query matches
SlugMatches(slug) == {id \in DOMAIN posts : Get(posts[id], "slug") = Str(slug)}

\* The parameter defaults of createPost
CreateDefaults ==
  ("tags" :> Arr(<<>>)) @@ ("status" :> Str(Draft)) @@ ("coverUrl" :> Str(<<>>))
    @@ ("slug" :> Str(<<>>))

createArgs(data) ==
  [k \in {"title", "contentHtml", "status", "tags", "coverUrl", "slug"} |->
     IF Defined(Get(data, k)) THEN data[k] ELSE Get(CreateDefaults, k)]

\* History: validation rejects the arguments of the call
argsRejected(op, data) ==
  CASE op = "createPost" -> validatePostData(createArgs(data), FALSE).err # "none"
    [] op = "updatePost" -> validatePostData(data, TRUE).err # "none"
    [] OTHER -> FALSE

\* postData of createPost
postData(validated, user, t) ==
  Merge(validated, ("authorId" :> user) @@ ("createdAt" :> t) @@ ("updatedAt" :> t))

stampPatchCreated(validated, t) == Merge(validated, ("updatedAt" :> t) @@ ("createdAt" :> t))

\* validatedPatch.updatedAt = timestamp.now()
stampPatch(validated, t) == Merge(validated, ("updatedAt" :> t))

\* createPost from the validation on, up to its first backend request
createValidate(rec, t) ==
  LET r == validatePostData(createArgs(rec.data), FALSE)
      v == Step(rec, "validate")
  IN IF r.err # "none" THEN Done(v, r.err)
     ELSE IF Truthy(r.val["slug"])
          THEN [Step(v, "slug") EXCEPT !.pc = "slugcheck", !.validated = r.val]
          ELSE [Step(v, "persist") EXCEPT
                  !.pc = "write", !.validated = postData(r.val, rec.user, t)]

AfterAuthUnguarded(rec, user, t) ==
  LET r == [Step(rec, "auth") EXCEPT !.user = user]
  IN CASE r.op = "createPost" -> createValidate(r, t)
       [] r.op = "listMine" -> [r EXCEPT !.pc = "query"]
       [] OTHER -> [Step(r, "resolve") EXCEPT !.pc = "get1"]

\* A call once waitForAuthInit has settled with `user`
AfterAuth(rec, user, t) ==
  LET r == [Step(rec, "auth") EXCEPT !.user = user]
  IN IF requireAdmin(user) # "none" THEN Done(r, requireAdmin(user))
     ELSE CASE r.op = "createPost" -> createValidate(r, t)
            [] r.op = "listMine" -> [r EXCEPT !.pc = "query"]
            [] OTHER -> [Step(r, "resolve") EXCEPT !.pc = "get1"]

\* existingPost.authorId !== user.uid
notOwnerNever(existing, user) == FALSE

notOwner(existing, user) == existing["authorId"] # user

\* updatePost / deletePost once getPostByIdOrSlug has returned `existing`
\* (NoFields for null)
AfterResolve(rec, existing) ==
  LET r == [rec EXCEPT !.existing = existing]
  IN IF DOMAIN existing = {} THEN Done(r, "NotFound")
     ELSE IF notOwner(existing, r.user) THEN Done(r, "Forbidden")
     ELSE IF r.op = "deletePost" THEN [Step(r, "persist") EXCEPT !.pc = "write"]
     ELSE LET v == validatePostData(r.data, TRUE)
              w == Step(r, "validate")
          IN IF v.err # "none" THEN Done(w, v.err)
             ELSE IF Truthy(Get(v.val, "slug")) /\ v.val["slug"] # Get(existing, "slug")
                  THEN [Step(w, "slug") EXCEPT !.pc = "slugcheck", !.validated = v.val]
                  ELSE [Step(w, "persist") EXCEPT
                          !.pc = "write", !.validated = stampPatch(v.val, now)]

\* A call is invoked: it runs up to its first backend request.
Invoke(c, op, key, data) ==
  /\ calls[c].pc = "idle"
  /\ \A d \in Callers : Before(d, c) => calls[d].pc # "idle"
  /\ LET w == waitForAuthInit
         rec == [Idle EXCEPT !.op = op, !.key = key, !.data = data,
                             !.preInit = ~authInit,
                             !.invalidArgs = argsRejected(op, data)]
     IN calls' = [calls EXCEPT ![c] =
                    IF w.settled THEN AfterAuth(rec, w.user, now)
                    ELSE [rec EXCEPT !.pc = "authwait"]]
  /\ overlapped' = (overlapped \/ \E d \in Callers \ {c} : InFlight(d))
  /\ ncalls < MaxCalls
  /\ ncalls' = ncalls + 1
  /\ UNCHANGED <<posts, nextId, now, authUser, authInit, blocked, workload>>

CreatesInFlight == Cardinality({c \in Callers : InFlight(c) /\ calls[c].op = "createPost"})

createPost(c, data) ==
  /\ nextId + CreatesInFlight < MaxPosts
  /\ Invoke(c, "createPost", <<>>, data)

updatePost(c, id, patch) == Invoke(c, "updatePost", id, patch)

publishPost(c, id) == updatePost(c, id, ("status" :> Str(Published)))

unpublishPost(c, id) == updatePost(c, id, ("status" :> Str(Draft)))

deletePost(c, id) == Invoke(c, "deletePost", id, NoFields)

listMine(c) == Invoke(c, "listMine", <<>>, NoFields)

\* key.length > 20: the key does not look like a generated id
looksLikeSlugLonger(key) == Len(key) > IdShapeLength + IdShapeLength

looksLikeSlug(key) == Len(key) > IdShapeLength

\* getPostByIdOrSlug, the lookup by id answers
GetById(c) ==
  /\ calls[c].pc = "get1"
  /\ LET key == calls[c].key
     IN calls' = [calls EXCEPT ![c] =
          IF key \in DOMAIN posts THEN AfterResolve(@, Doc(key))
          ELSE IF looksLikeSlug(key) THEN [@ EXCEPT !.pc = "get2"]
          ELSE AfterResolve(@, NoFields)]
  /\ UNCHANGED <<posts, nextId, now, authUser, authInit, overlapped,
                 blocked, ncalls, workload>>

\* getPostByIdOrSlug, the query by slug (limit 1) answers
GetBySlug(c) ==
  /\ calls[c].pc = "get2"
  /\ LET m == SlugMatches(calls[c].key)
     IN IF m = {} THEN calls' = [calls EXCEPT ![c] = AfterResolve(@, NoFields)]
        ELSE \E id \in m : calls' = [calls EXCEPT ![c] = AfterResolve(@, Doc(id))]
  /\ UNCHANGED <<posts, nextId, now, authUser, authInit, overlapped,
                 blocked, ncalls, workload>>

slugTakenNever(rec, found) == FALSE

\* Whether the answer `found` (a set holding at most the one document id
\* returned by getPostBySlug) makes the call throw SlugConflict
slugTaken(rec, found) ==
  IF rec.op = "createPost" THEN found # {}
  ELSE \E id \in found : id # rec.key

\* getPostBySlug answers the uniqueness check of createPost / updatePost
SlugCheck(c) ==
  /\ calls[c].pc = "slugcheck"
  /\ LET rec == calls[c]
         slug == rec.validated["slug"].v
         m == SlugMatches(slug)
     IN \E found \in (IF m = {} THEN {{}} ELSE {{id} : id \in m}) :
          IF slugTaken(rec, found)
          THEN /\ calls' = [calls EXCEPT ![c] = Done(rec, "SlugConflict")]
               /\ blocked' = IF rec.op = "createPost" THEN blocked \cup found
                             ELSE blocked
          ELSE /\ calls' = [calls EXCEPT ![c] =
                              [Step(rec, "persist") EXCEPT !.pc = "write",
                                 !.validated = IF rec.op = "createPost"
                                               THEN postData(rec.validated, rec.user, now)
                                               ELSE stampPatch(rec.validated, now)]]
               /\ blocked' = blocked
  /\ UNCHANGED <<posts, nextId, now, authUser, authInit, overlapped, ncalls, workload>>

updateDocOrCreate(store, id, patch) ==
  IF id \in DOMAIN store THEN [store EXCEPT ![id] = Merge(@, patch)]
  ELSE (id :> patch) @@ store

\* doc(id).update(patch): merges into an existing document, and fails
\* without writing when there is none
updateDoc(store, id, patch) ==
  IF id \in DOMAIN store THEN [store EXCEPT ![id] = Merge(@, patch)]
  ELSE store

\* The store applies the write of the call and the call returns
Write(c) ==
  /\ calls[c].pc = "write"
  /\ LET rec == calls[c]
     IN CASE rec.op = "createPost" ->
               /\ posts' = (PostId(nextId + 1) :> rec.validated) @@ posts
               /\ nextId' = nextId + 1
               /\ calls' = [calls EXCEPT ![c] = Done(rec, "ok")]
          [] rec.op = "updatePost" ->
               /\ posts' = updateDoc(posts, rec.key, rec.validated)
               /\ calls' = [calls EXCEPT ![c] =
                              Done(rec, IF rec.key \in DOMAIN posts THEN "ok"
                                        ELSE "BackendError")]
               /\ nextId' = nextId
          [] OTHER ->
               /\ posts' = [id \in (DOMAIN posts) \ {rec.key} |-> posts[id]]
               /\ calls' = [calls EXCEPT ![c] = Done(rec, "ok")]
               /\ nextId' = nextId
  /\ UNCHANGED <<now, authUser, authInit, overlapped, blocked, ncalls, workload>>

\* The store answers the query of listMine
Query(c) ==
  /\ calls[c].pc = "query"
  /\ LET mine == {id \in DOMAIN posts : posts[id]["authorId"] = calls[c].user}
     IN calls' = [calls EXCEPT ![c] =
                    [Done(@, "ok") EXCEPT !.existing = ("ids" :> mine)]]
  /\ UNCHANGED <<posts, nextId, now, authUser, authInit, overlapped,
                 blocked, ncalls, workload>>

\* The caller takes the outcome of its settled call
Return(c) ==
  /\ calls[c].pc = "done"
  /\ calls' = [calls EXCEPT ![c] = Idle]
  /\ UNCHANGED <<posts, nextId, now, authUser, authInit, overlapped,
                 blocked, ncalls, workload>>

\* The callbacks application code passes to onAuthChange.  "once" calls its
\* own unsubscribe function when a notification invokes it.
Callbacks == {"f", "g", "once"}
SelfUnsubscribing == {"once"}

\* authStateListeners.indexOf(callback), 0 when absent
RECURSIVE IndexFrom(_, _, _)
IndexFrom(list, cb, i) ==
  IF i > Len(list) THEN 0
  ELSE IF list[i] = cb THEN i
  ELSE IndexFrom(list, cb, i + 1)

indexOf(list, cb) == IndexFrom(list, cb, 1)

\* The unsubscribe function: splice(index, 1) when index > -1
unsubscribe(list, cb) ==
  LET i == indexOf(list, cb)
  IN IF i = 0 THEN list
     ELSE SubSeq(list, 1, i - 1) \o SubSeq(list, i + 1, Len(list))

\* authStateListeners.forEach(callback => callback(user)): the indices
\* k..len of the array as it is when each is reached; len is the length
\* when the loop started.
RECURSIVE forEachListener(_, _, _, _, _)
forEachListener(k, len, list, log, user) ==
  IF k > len THEN [list |-> list, log |-> log]
  ELSE IF k > Len(list) THEN forEachListener(k + 1, len, list, log, user)
  ELSE LET cb == list[k]
       IN forEachListener(k + 1, len,
            IF cb \in SelfUnsubscribing THEN unsubscribe(list, cb) ELSE list,
            [log EXCEPT ![cb] = Append(@, user)],
            user)

\* The provider's change notification: the first one delivers the restored
\* session (an identity or none), later ones a sign-in or a sign-out.  The
\* listener registered by auth.js stores the identity and runs the callbacks.
AuthStateChanged(u) ==
  /\ authInit => u # authUser
  /\ nevents < MaxAuthEvents \/ authStateListeners = <<>>
  /\ authUser' = u
  /\ authInit' = TRUE
  /\ currentUser' = u
  /\ LET r == forEachListener(1, Len(authStateListeners), authStateListeners, delivered, u)
     IN /\ authStateListeners' = r.list
        /\ delivered' = r.log
  /\ nevents' = IF authStateListeners = <<>> THEN nevents ELSE nevents + 1
  /\ calls' = [c \in Callers |->
                 IF calls[c].pc = "authwait" THEN AfterAuth(calls[c], u, now) ELSE calls[c]]
  /\ UNCHANGED <<posts, nextId, now, overlapped, blocked, ncalls, workload, handles>>

getCurrentUser == currentUser

\* onAuthChange(callback): push, call back with the current user, return the
\* unsubscribe function
onAuthChange(cb) ==
  /\ nevents < MaxAuthEvents
  /\ authStateListeners' = Append(authStateListeners, cb)
  /\ delivered' = [delivered EXCEPT ![cb] = Append(@, currentUser)]
  /\ handles' = handles \cup {cb}
  /\ nevents' = nevents + 1
  /\ UNCHANGED <<currentUser, authUser, authInit>>

\* Application code calls the unsubscribe function it holds for cb
Unsubscribe(cb) ==
  /\ cb \in handles
  /\ authStateListeners' = unsubscribe(authStateListeners, cb)
  /\ UNCHANGED <<currentUser, handles, delivered, nevents, authUser, authInit>>

(***************************************************************************)
(* Profile API (api.profile.js)                                            *)
(***************************************************************************)
ProfileIdle ==
  [op |-> "none", pc |-> "idle", uid |-> NoUser, data |-> NoFields,
   validated |-> NoFields, result |-> "", steps |-> <<>>, invalidArgs |-> FALSE]

ProfileInFlight(c) == pcalls[c].pc \notin {"idle", "done"}

\* The call settles; its arguments are no longer live
ProfileDone(rec, res) ==
  [rec EXCEPT !.pc = "done", !.result = res, !.data = NoFields, !.validated = NoFields]

\* user.displayName and user.photoURL of the identity the provider delivers
displayNameOf(uid) == Str(<<"u">>)
photoURLOf(uid) == Str(<<>>)

\* profileData of createInitialProfile
initialProfile(uid, t) ==
  ("displayName" :> displayNameOf(uid)) @@ ("nickname" :> Str(<<>>)) @@ ("bio" :> Str(<<>>))
    @@ ("tags" :> Arr(<<>>)) @@ ("photoURL" :> photoURLOf(uid))
    @@ ("siteBgUrl" :> Str(<<>>)) @@ ("authorBgUrl" :> Str(<<>>))
    @@ ("createdAt" :> t) @@ ("updatedAt" :> t)

setDocMerge(store, uid, data) ==
  IF uid \in DOMAIN store THEN [store EXCEPT ![uid] = Merge(@, data)]
  ELSE (uid :> data) @@ store

\* doc(uid).set(data): replaces the document, creating it when absent
setDoc(store, uid, data) ==
  (uid :> data) @@ [u \in (DOMAIN store) \ {uid} |-> store[u]]

\* A profile call is invoked
ProfileInvoke(c, rec) ==
  /\ pcalls[c].pc = "idle"
  /\ \A d \in Callers : Before(d, c) => pcalls[d].pc # "idle"
  /\ ncalls < MaxCalls
  /\ ncalls' = ncalls + 1
  /\ pcalls' = [pcalls EXCEPT ![c] = rec]
  /\ UNCHANGED profiles

\* getProfile(uid) up to its read
getProfile(c, uid) ==
  ProfileInvoke(c, [ProfileIdle EXCEPT !.op = "getProfile", !.pc = "read", !.uid = uid])

\* getOrCreateProfile(user) up to the read of getProfile(user.uid)
getOrCreateProfile(c, uid) ==
  ProfileInvoke(c, [ProfileIdle EXCEPT !.op = "getOrCreateProfile", !.pc = "read", !.uid = uid])

\* updateMyProfile(profileData) up to its write
updateMyProfile(c, data) ==
  /\ waitForAuthInit.settled
  /\ LET user == waitForAuthInit.user
         v == validateProfileData(data)
         rec == Step([ProfileIdle EXCEPT !.op = "updateMyProfile", !.uid = user,
                                         !.data = data, !.invalidArgs = (v.err # "none")],
                     "auth")
     IN ProfileInvoke(c,
          IF requireAuth(user) # "none" THEN ProfileDone(rec, requireAuth(user))
          ELSE IF v.err # "none" THEN ProfileDone(Step(rec, "validate"), v.err)
          ELSE [Step(Step(rec, "validate"), "persist") EXCEPT
                  !.pc = "write", !.validated = stampPatch(v.val, now)])

\* The store answers doc(uid).get()
ProfileRead(c) ==
  /\ pcalls[c].pc = "read"
  /\ LET rec == pcalls[c]
     IN pcalls' = [pcalls EXCEPT ![c] =
          IF rec.uid \in DOMAIN profiles THEN ProfileDone(rec, "ok")
          ELSE IF rec.op = "getProfile" THEN ProfileDone(rec, "null")
          ELSE [rec EXCEPT !.pc = "write", !.validated = initialProfile(rec.uid, now)]]
  /\ UNCHANGED <<profiles, ncalls>>

\* The store applies doc(uid).set(...)
ProfileWrite(c) ==
  /\ pcalls[c].pc = "write"
  /\ LET rec == pcalls[c]
     IN /\ profiles' = IF rec.op = "updateMyProfile"
                       THEN setDocMerge(profiles, rec.uid, rec.validated)
                       ELSE setDoc(profiles, rec.uid, rec.validated)
        /\ pcalls' = [pcalls EXCEPT ![c] = ProfileDone(rec, "ok")]
  /\ UNCHANGED ncalls

\* The caller takes the outcome of its settled call
ProfileReturn(c) ==
  /\ pcalls[c].pc = "done"
  /\ pcalls' = [pcalls EXCEPT ![c] = ProfileIdle]
  /\ UNCHANGED <<profiles, ncalls>>

\* What a profile step leaves alone
ProfileFrame ==
  UNCHANGED <<posts, nextId, now, calls, overlapped, blocked, workload,
              providerVars, listenerVars, validateVars, uploadVars>>

(***************************************************************************)
(* upload.js                                                               *)
(***************************************************************************)
maxImageSize == 5 * 1024 * 1024
allowedImageTypes == {"image/jpeg", "image/png", "image/gif", "image/webp"}

\* No file chosen (null)
NoFile == [type |-> "", size |-> -1]

validateImageFileAnySize(file) ==
  IF file = NoFile THEN "InvalidFile"
  ELSE IF file.type \notin allowedImageTypes THEN "InvalidFile"
  ELSE "ok"

\* validateImageFile: the error it throws, or ok
validateImageFile(file) ==
  IF file = NoFile THEN "InvalidFile"
  ELSE IF file.type \notin allowedImageTypes THEN "InvalidFile"
  ELSE IF file.size > maxImageSize THEN "FileTooLarge"
  ELSE "ok"

\* user ? `${folder}/${user.uid}` : folder
userFolder(folder, user) ==
  IF user # NoUser THEN [folder |-> folder, uid |-> user]
  ELSE [folder |-> folder, uid |-> NoUser]

NoUpload == [pc |-> "idle", file |-> NoFile, folder |-> userFolder("", NoUser), result |-> ""]

\* What the image host answers: response.ok with a secure_url or without
\* one, a refusal with or without an error message, or no answer (fetch
\* rejects)
HostResponses == {"url", "no-url", "refused-message", "refused", "network"}

\* uploadImage(file, folder) up to the fetch
uploadImage(file, folder) ==
  /\ upload.pc # "fetch"
  /\ LET v == validateImageFile(file)
     IN IF v # "ok"
        THEN /\ upload' = [pc |-> "done", file |-> file,
                           folder |-> userFolder("", NoUser), result |-> v]
             /\ UNCHANGED requests
        ELSE /\ requests < MaxUploads
             /\ upload' = [pc |-> "fetch", file |-> file,
                           folder |-> userFolder(folder, getCurrentUser), result |-> ""]
             /\ requests' = requests + 1

uploadAvatar(file) == uploadImage(file, "avatars")
uploadBackground(file) == uploadImage(file, "backgrounds")
uploadPostImage(file) == uploadImage(file, "posts")
uploadCover(file) == uploadImage(file, "covers")

\* uploadImage from the answer of the image host to its return or throw
HostResponds(r) ==
  /\ upload.pc = "fetch"
  /\ upload' = [upload EXCEPT !.pc = "done",
                              !.result = IF r = "url" THEN "ok" ELSE "UploadFailed"]
  /\ UNCHANGED requests

InitStore ==
  /\ posts = [id \in {} |-> NoFields]
  /\ nextId = 0
  /\ now = 0
  /\ calls = [c \in Callers |-> Idle]
  /\ authUser = NoUser
  /\ authInit = FALSE
  /\ overlapped = FALSE
  /\ blocked = {}
  /\ ncalls = 0

InitListeners ==
  /\ currentUser = NoUser
  /\ authStateListeners = <<>>
  /\ handles = {}
  /\ delivered = [cb \in Callbacks |-> <<>>]
  /\ nevents = 0

InitValidate == vmode = "create" /\ vin = NoFields /\ vout = Pending

InitUpload == upload = NoUpload /\ requests = 0

InitProfile == profiles = [u \in {} |-> NoFields] /\ pcalls = [c \in Callers |-> ProfileIdle]

InitSide == InitValidate /\ InitUpload /\ InitProfile

Init ==
  InitStore /\ workload \in Workloads /\ InitListeners /\ InitSide

Next ==
  \/ \E c \in Callers, d \in workload.creates : createPost(c, d) /\ UNCHANGED <<listenerVars, sideVars>>
  \/ \E c \in Callers, k \in workload.keys, d \in workload.patches :
       updatePost(c, k, d) /\ UNCHANGED <<listenerVars, sideVars>>
  \/ \E c \in Callers, k \in workload.keys :
       workload.sugar /\ publishPost(c, k) /\ UNCHANGED <<listenerVars, sideVars>>
  \/ \E c \in Callers, k \in workload.keys :
       workload.sugar /\ unpublishPost(c, k) /\ UNCHANGED <<listenerVars, sideVars>>
  \/ \E c \in Callers, k \in workload.keys : deletePost(c, k) /\ UNCHANGED <<listenerVars, sideVars>>
  \/ \E c \in Callers : workload.sugar /\ listMine(c) /\ UNCHANGED <<listenerVars, sideVars>>
  \/ \E c \in Callers : GetById(c) /\ UNCHANGED <<listenerVars, sideVars>>
  \/ \E c \in Callers : GetBySlug(c) /\ UNCHANGED <<listenerVars, sideVars>>
  \/ \E c \in Callers : SlugCheck(c) /\ UNCHANGED <<listenerVars, sideVars>>
  \/ \E c \in Callers : Write(c) /\ UNCHANGED <<listenerVars, sideVars>>
  \/ \E c \in Callers : Query(c) /\ UNCHANGED <<listenerVars, sideVars>>
  \/ \E c \in Callers : Return(c) /\ UNCHANGED <<listenerVars, sideVars>>
  \/ \E u \in workload.identities : AuthStateChanged(u) /\ UNCHANGED sideVars

Spec == Init /\ [][Next]_vars

(***************************************************************************)
(* The posts API with a clock that advances                                *)
(***************************************************************************)
\* A patch that names fields updatePost does not accept
OverreachingPatch ==
  ("title" :> Str(TitleB)) @@ ("authorId" :> 2) @@ ("createdAt" :> MaxTime + 1)
    @@ ("id" :> PostId(2))

TimedWorkload ==
  [name |-> "timed", identities |-> {1},
   creates |-> {WithLongSlug},
   patches |-> {OverreachingPatch},
   keys |-> {PostId(1), LongSlug},
   sugar |-> TRUE]

\* Time passes between two steps of the program
Tick ==
  /\ now < MaxTime
  /\ now' = now + 1
  /\ UNCHANGED <<posts, nextId, calls, overlapped, blocked, ncalls, workload,
                 providerVars, listenerVars, sideVars>>

InitTimed ==
  InitStore /\ workload = TimedWorkload /\ InitListeners /\ InitSide

NextTimed == Next \/ Tick

SpecTimed == InitTimed /\ [][NextTimed]_vars

(***************************************************************************)
(* The session state holder on its own: subscriptions and notifications    *)
(***************************************************************************)
AuthIdentities == {NoUser, 1, 2}
IdleWorkload == CHOOSE w \in Workloads : w.name = "guards"

InitAuth ==
  InitStore /\ workload = IdleWorkload /\ InitListeners /\ InitSide

NextAuth ==
  \/ \E cb \in Callbacks : onAuthChange(cb) /\ UNCHANGED <<storeVars, sideVars>>
  \/ \E cb \in Callbacks : Unsubscribe(cb) /\ UNCHANGED <<storeVars, sideVars>>
  \/ \E u \in AuthIdentities : AuthStateChanged(u) /\ UNCHANGED sideVars

SpecAuth == InitAuth /\ [][NextAuth]_vars

(***************************************************************************)
(* The validation functions on their own                                   *)
(***************************************************************************)
Tag == Str(<<"t">>)
PaddedTag == Str(<<" ", "t", " ">>)
BlankTag == Str(<<" ", " ">>)
TagsOf(n) == Arr(Rep(Tag, n))

TagInputs ==
  { Undef,
    Arr(<<>>),
    Arr(<<PaddedTag, BlankTag, Tag, Str(<<>>)>>),
    TagsOf(maxTagCount),
    Arr(Rep(Tag, maxTagCount - 1) \o <<BlankTag>>),
    TagsOf(maxTagCount + 1),
    Arr(<<BlankTag>> \o Rep(Tag, maxTagCount - 1) \o <<BlankTag>>),
    Arr(Rep(BlankTag, maxTagCount + 2)),
    Arr(<<Str(Rep("t", maxTagLength))>>),
    Arr(<<Str(<<" ">> \o Rep("t", maxTagLength))>>),
    Arr(<<Str(Rep("t", maxTagLength + 1))>>),
    Arr(<<Tag, Num(1)>>),
    Str(<<"t">>) }

GoodUrl == <<"h","t","t","p","s",":","/","/","x">>
BadUrl == <<"f","t","p",":","/","/","x">>

PostInputs ==
  { ("title" :> ti) @@ ("contentHtml" :> co) @@ ("status" :> st) @@ ("tags" :> ta)
      @@ ("coverUrl" :> cu) @@ ("slug" :> sl) :
      ti \in {Undef, Str(TitleA), Str(<<>>), Str(<<" ">>), Str(Rep("a", maxTitleLength + 1))},
      co \in {Undef, Str(Body)},
      st \in {Undef, Str(Published), Str(<<"x">>)},
      ta \in TagInputs,
      cu \in {Undef, Str(GoodUrl), Str(BadUrl)},
      sl \in {Undef, Str(<<" ">> \o ShortSlug), Str(BadSlug)} }

ProfileInputs ==
  { ("displayName" :> dn) @@ ("bio" :> bi) @@ ("tags" :> ta) @@ ("photoURL" :> ph) :
      dn \in {Undef, Str(<<" ", " ", "a", " ">>), Str(Rep("a", maxDisplayNameLength + 1)), Num(1)},
      bi \in {Undef, Str(<<"b">>), Str(Rep("b", maxBioLength + 1))},
      ta \in TagInputs,
      ph \in {Undef, Str(<<>>), Str(<<" ">> \o GoodUrl), Str(BadUrl)} }

InitValidation ==
  /\ InitStore /\ workload = IdleWorkload /\ InitListeners /\ InitUpload /\ InitProfile
  /\ vmode \in {"create", "update", "profile"}
  /\ vin \in (IF vmode = "profile" THEN ProfileInputs ELSE PostInputs)
  /\ vout = Pending

ValidatePost ==
  /\ vout = Pending
  /\ vmode # "profile"
  /\ vout' = validatePostData(vin, vmode = "update")
  /\ UNCHANGED <<vmode, vin>>

ValidateProfile ==
  /\ vout = Pending
  /\ vmode = "profile"
  /\ vout' = validateProfileData(vin)
  /\ UNCHANGED <<vmode, vin>>

NextValidation ==
  \/ ValidatePost /\ UNCHANGED <<storeVars, providerVars, listenerVars, uploadVars, profileVars>>
  \/ ValidateProfile /\ UNCHANGED <<storeVars, providerVars, listenerVars, uploadVars, profileVars>>

SpecValidation == InitValidation /\ [][NextValidation]_vars

(***************************************************************************)
(* The profile API on its own                                              *)
(***************************************************************************)
ProfileUids == {1, 2}
ProfilePatches ==
  { ("bio" :> Str(<<"b">>)),
    ("nickname" :> Str(<<" ", "n">>)),
    ("displayName" :> Str(Rep("a", maxDisplayNameLength + 1))) }

InitProfiles == InitStore /\ workload = IdleWorkload /\ InitListeners /\ InitSide

NextProfile ==
  \/ \E c \in Callers, u \in ProfileUids : getProfile(c, u) /\ ProfileFrame
  \/ \E c \in Callers, u \in ProfileUids : getOrCreateProfile(c, u) /\ ProfileFrame
  \/ \E c \in Callers, d \in ProfilePatches : updateMyProfile(c, d) /\ ProfileFrame
  \/ \E c \in Callers : ProfileRead(c) /\ ProfileFrame
  \/ \E c \in Callers : ProfileWrite(c) /\ ProfileFrame
  \/ \E c \in Callers : ProfileReturn(c) /\ ProfileFrame
  \/ \E u \in ProfileUids \cup {NoUser} : AuthStateChanged(u) /\ UNCHANGED sideVars

SpecProfile == InitProfiles /\ [][NextProfile]_vars

(***************************************************************************)
(* The writing operations of both APIs, with arguments validation rejects  *)
(***************************************************************************)
OrderWorkload ==
  [name |-> "order", identities |-> {1, 3},
   creates |-> {EmptyTitle, WithLongSlug},
   patches |-> {("status" :> Str(<<"x">>)), ("title" :> Str(TitleB))},
   keys |-> {PostId(1), LongSlug},
   sugar |-> FALSE]

\* updateMyProfile inputs of the ordering runs: one that validates and one
\* that validateProfileData rejects
OrderProfilePatches ==
  { ("nickname" :> Str(<<" ", "n">>)),
    ("displayName" :> Str(Rep("a", maxDisplayNameLength + 1))) }

InitOrder == InitStore /\ workload = OrderWorkload /\ InitListeners /\ InitSide

NextOrder ==
  \/ \E c \in Callers, d \in workload.creates :
       createPost(c, d) /\ UNCHANGED <<listenerVars, sideVars>>
  \/ \E c \in Callers, k \in workload.keys, d \in workload.patches :
       updatePost(c, k, d) /\ UNCHANGED <<listenerVars, sideVars>>
  \/ \E c \in Callers : GetById(c) /\ UNCHANGED <<listenerVars, sideVars>>
  \/ \E c \in Callers : GetBySlug(c) /\ UNCHANGED <<listenerVars, sideVars>>
  \/ \E c \in Callers : SlugCheck(c) /\ UNCHANGED <<listenerVars, sideVars>>
  \/ \E c \in Callers : Write(c) /\ UNCHANGED <<listenerVars, sideVars>>
  \/ \E c \in Callers : Return(c) /\ UNCHANGED <<listenerVars, sideVars>>
  \/ \E u \in workload.identities : AuthStateChanged(u) /\ UNCHANGED sideVars
  \/ \E c \in Callers, d \in OrderProfilePatches :
       updateMyProfile(c, d) /\ ProfileFrame
  \/ \E c \in Callers : ProfileWrite(c) /\ ProfileFrame
  \/ \E c \in Callers : ProfileReturn(c) /\ ProfileFrame

SpecOrder == InitOrder /\ [][NextOrder]_vars

(***************************************************************************)
(* generateSlug on its own                                                 *)
(***************************************************************************)
TitleChars == {"A", "b", "1", " ", "-", "_", "!"}
MaxTitleTail == 3
TitleTails == UNION {[1..n -> TitleChars] : n \in 0..MaxTitleTail}
TitleHeads == {Rep("a", n) : n \in {0, SlugMaxLength - 2, SlugMaxLength - 1, SlugMaxLength}}
Titles == {h \o t : h \in TitleHeads, t \in TitleTails}

InitSlug ==
  /\ InitStore /\ workload = IdleWorkload /\ InitListeners /\ InitUpload /\ InitProfile
  /\ vmode = "slug"
  /\ vin \in {Str(t) : t \in Titles}
  /\ vout = Pending

GenerateSlug ==
  /\ vout = Pending
  /\ vmode = "slug"
  /\ vout' = Ok(Str(generateSlug(vin.v)))
  /\ UNCHANGED <<vmode, vin>>

NextSlug ==
  GenerateSlug /\ UNCHANGED <<storeVars, providerVars, listenerVars, uploadVars, profileVars>>

SpecSlug == InitSlug /\ [][NextSlug]_vars

(***************************************************************************)
(* The upload mediator on its own                                          *)
(***************************************************************************)
FileTypes == allowedImageTypes \cup {"image/svg+xml", "text/plain", ""}
FileSizes == {0, maxImageSize, maxImageSize + 1}
Files == {NoFile} \cup [type : FileTypes, size : FileSizes]

InitUploads ==
  /\ InitStore /\ workload = IdleWorkload /\ InitListeners /\ InitSide

NextUpload ==
  \/ \E f \in Files :
       uploadImage(f, "uploads") /\ UNCHANGED <<storeVars, providerVars, listenerVars, validateVars, profileVars>>
  \/ \E f \in Files : uploadAvatar(f) /\ UNCHANGED <<storeVars, providerVars, listenerVars, validateVars, profileVars>>
  \/ \E f \in Files :
       uploadBackground(f) /\ UNCHANGED <<storeVars, providerVars, listenerVars, validateVars, profileVars>>
  \/ \E f \in Files :
       uploadPostImage(f) /\ UNCHANGED <<storeVars, providerVars, listenerVars, validateVars, profileVars>>
  \/ \E f \in Files : uploadCover(f) /\ UNCHANGED <<storeVars, providerVars, listenerVars, validateVars, profileVars>>
  \/ \E r \in HostResponses :
       HostResponds(r) /\ UNCHANGED <<storeVars, providerVars, listenerVars, validateVars, profileVars>>
  \/ \E u \in {NoUser, 1} : AuthStateChanged(u) /\ UNCHANGED sideVars

SpecUpload == InitUploads /\ [][NextUpload]_vars

(***************************************************************************)
(* Properties of the post store                                            *)
(***************************************************************************)
SlugOf(id) == Get(posts[id], "slug")
HasSlug(id) == Truthy(SlugOf(id))
Settled(c) == calls[c].pc = "done"
Found(c) == DOMAIN calls[c].existing # {}
ValidationErrors ==
  {"ValidationError", "RequiredFieldMissing", "InvalidURL", "InvalidStatus", "InvalidSlug"}

\* C1 as claimed: in every reachable state, overlapping calls included, no
\* two distinct stored posts have the same non-empty slug.
C1_SlugUniqueAlways ==
  \A p, q \in DOMAIN posts : (p # q /\ HasSlug(p)) => SlugOf(p) # SlugOf(q)

\* C1 as amended: while no call has been invoked with another one still in
\* flight, no two distinct stored posts have the same non-empty slug.
C1_SlugUniqueSequential == ~overlapped => C1_SlugUniqueAlways

\* C1 witness: a run without overlap that stored two posts with non-empty
\* slugs after a createPost was refused for its slug.
C1_Witness ==
  /\ ~overlapped
  /\ blocked # {}
  /\ Cardinality({p \in DOMAIN posts : HasSlug(p)}) = 2

\* The step in which call c settles
Settles(c) == calls[c].pc # "done" /\ calls'[c].pc = "done"

\* Call c is an updatePost (publishPost and unpublishPost included) or a
\* deletePost addressed by the id of the stored post it resolved
OnPostById(rec) ==
  /\ rec.op \in {"updatePost", "deletePost"}
  /\ DOMAIN rec.existing # {}
  /\ rec.key = rec.existing["id"]

\* C2 as claimed: a settled updatePost, publishPost, unpublishPost or
\* deletePost on a stored post failed with Forbidden when the caller is not
\* the author, and succeeded (its patch being valid) when the caller is.
C2_OwnerAlwaysSucceeds ==
  \A c \in Callers :
    (Settled(c) /\ OnPostById(calls[c])) =>
      IF calls[c].existing["authorId"] # calls[c].user
      THEN calls[c].result = "Forbidden"
      ELSE calls[c].result \in {"ok"} \cup ValidationErrors

\* C2 as amended: such a call by an admin who is not the author settles
\* with Forbidden in a step that leaves the store unchanged; by the author it
\* never settles with Forbidden, and it settles with ok unless the patch is
\* invalid (a validation error), the patch brings a new slug that another
\* stored post holds (SlugConflict), or the post has been deleted before the
\* update is applied (the store's not-found error).
C2_OwnerOnly ==
  [][\A c \in Callers :
       (Settles(c) /\ OnPostById(calls'[c])) =>
         LET old == calls[c]
             new == calls'[c]
         IN IF new.existing["authorId"] # new.user
            THEN new.result = "Forbidden" /\ posts' = posts
            ELSE \/ new.result = "ok"
                 \/ /\ new.result \in ValidationErrors
                    /\ validatePostData(old.data, TRUE).err = new.result
                 \/ /\ new.result = "SlugConflict"
                    /\ old.op = "updatePost"
                    /\ \E id \in DOMAIN posts :
                         id # old.key /\ SlugOf(id) = old.validated["slug"]
                 \/ /\ new.result = "BackendError"
                    /\ old.op = "updatePost"
                    /\ old.key \notin DOMAIN posts]_vars

\* C2 witness: one admin was refused on a post of the other admin, whose own
\* update of that post succeeded.
C2_Witness ==
  \E c, d \in Callers :
    /\ Settled(c) /\ OnPostById(calls[c]) /\ calls[c].user \in ADMIN_UIDS
    /\ calls[c].existing["authorId"] # calls[c].user
    /\ calls[c].result = "Forbidden"
    /\ Settled(d) /\ OnPostById(calls[d]) /\ calls[d].op = "updatePost"
    /\ calls[d].existing["authorId"] = calls[d].user
    /\ calls[d].existing["id"] = calls[c].existing["id"]
    /\ calls[d].result = "ok"

\* C3: a call made with no identity fails with Unauthenticated, a call made
\* by an identity outside the allow-list fails with Forbidden, no call of
\* either kind gets as far as a backend request, and every stored post has an
\* author of the allow-list.
C3_GuardedByAdmin ==
  /\ \A c \in Callers :
       /\ (Settled(c) /\ calls[c].user = NoUser) => calls[c].result = "Unauthenticated"
       /\ (Settled(c) /\ calls[c].user \notin ADMIN_UIDS \cup {NoUser}) =>
            calls[c].result = "Forbidden"
       /\ calls[c].pc \in {"get1", "get2", "slugcheck", "write", "query"} =>
            calls[c].user \in ADMIN_UIDS
  /\ \A id \in DOMAIN posts : posts[id]["authorId"] \in ADMIN_UIDS

\* C3 witness: with a post stored and the provider initialised, one call
\* failed for want of an identity and another for want of the admin role.
C3_Witness ==
  /\ authInit
  /\ DOMAIN posts # {}
  /\ \E c, d \in Callers :
       /\ Settled(c) /\ calls[c].user = NoUser /\ calls[c].result = "Unauthenticated"
       /\ Settled(d) /\ calls[d].user \notin ADMIN_UIDS \cup {NoUser}
       /\ calls[d].result = "Forbidden"

\* C4 as claimed: no stored post has a missing or empty title or a missing
\* or empty contentHtml.
C4_RequiredFieldsStored ==
  \A id \in DOMAIN posts :
    Truthy(Get(posts[id], "title")) /\ Truthy(Get(posts[id], "contentHtml"))

\* The step in which getPostByIdOrSlug returns to call c
Resolves(c) == calls[c].pc \in {"get1", "get2"} /\ calls'[c].pc \notin {"get1", "get2"}

\* C5 as claimed: getPostByIdOrSlug given the id of a stored post p, or the
\* non-empty slug of p (no post id), returns p, whatever the slug's length.
C5_ResolvesAnySlug ==
  [][\A c \in Callers : \A p \in DOMAIN posts :
       (/\ Resolves(c)
        /\ \/ calls[c].key = p
           \/ HasSlug(p) /\ SlugOf(p) = Str(calls[c].key) /\ calls[c].key \notin DOMAIN posts)
       => calls'[c].existing = Doc(p)]_vars

\* C5 as amended: given the id of a stored post p it returns p; given the
\* slug of p, longer than 20 characters, no post id and held by no other
\* post, it returns p; given a key of at most 20 characters that is no post
\* id it returns null.
C5_ResolvesLongSlug ==
  [][\A c \in Callers :
       Resolves(c) =>
         /\ \A p \in DOMAIN posts :
              (\/ calls[c].key = p
               \/ /\ SlugMatches(calls[c].key) = {p}
                  /\ calls[c].key \notin DOMAIN posts
                  /\ Len(calls[c].key) > IdShapeLength)
              => calls'[c].existing = Doc(p)
         /\ (calls[c].key \notin DOMAIN posts /\ Len(calls[c].key) <= IdShapeLength)
              => calls'[c].existing = NoFields]_vars

\* C5 witness: a call was given the 21-character slug of a stored post and
\* resolved that post.
C5_Witness ==
  \E c \in Callers :
    /\ Found(c)
    /\ Len(calls[c].key) > IdShapeLength
    /\ calls[c].existing["id"] \in DOMAIN posts
    /\ SlugOf(calls[c].existing["id"]) = Str(calls[c].key)

\* C6 as claimed: a deletePost that resolved stored post p and returned
\* successfully removed p; an updatePost or deletePost that failed with
\* NotFound had resolved no post.
C6_WriteHitsResolvedPost ==
  \A c \in Callers :
    /\ (Settled(c) /\ calls[c].op = "deletePost" /\ calls[c].result = "ok") =>
         calls[c].existing["id"] \notin DOMAIN posts
    /\ (Settled(c) /\ calls[c].result = "NotFound") => ~Found(c)

\* C7: while calls do not overlap, a createPost whose slug is held by a
\* stored post fails with SlugConflict in a step that leaves the store
\* unchanged, and a createPost whose slug no stored post holds (none, or none
\* any more after a deletePost) goes on to store its post and return it.
C7_SlugConflictUntilDeleted ==
  [][\A c \in Callers :
       (~overlapped' /\ calls[c].op = "createPost") =>
         /\ (calls[c].pc = "slugcheck" /\ calls'[c].pc # "slugcheck") =>
              IF \E id \in DOMAIN posts : SlugOf(id) = calls[c].validated["slug"]
              THEN calls'[c].result = "SlugConflict" /\ posts' = posts
              ELSE calls'[c].pc = "write"
         /\ (calls[c].pc = "write" /\ calls'[c].pc # "write") =>
              /\ calls'[c].result = "ok"
              /\ \E id \in (DOMAIN posts') \ (DOMAIN posts) :
                   /\ posts' = (id :> calls[c].validated) @@ posts
                   /\ \A q \in DOMAIN posts : HasSlug(q) => SlugOf(q) # posts'[id]["slug"]]_vars

\* C7 witness: without overlap, a post whose slug had made a createPost fail
\* was deleted, and a later createPost stored a post with that slug.
C7_Witness ==
  /\ ~overlapped
  /\ \E c, d \in Callers :
       /\ Settled(c) /\ calls[c].op = "deletePost" /\ calls[c].result = "ok"
       /\ Found(c) /\ calls[c].existing["id"] \in blocked
       /\ calls[c].existing["id"] \notin DOMAIN posts
       /\ Settled(d) /\ calls[d].op = "createPost" /\ calls[d].result = "ok"
       /\ \E id \in DOMAIN posts : HasSlug(id) /\ SlugOf(id) = calls[c].existing["slug"]

\* C8 as claimed: a guarded call invoked before the provider's first change
\* notification does not settle until that notification has arrived.
C8_WaitsForProvider ==
  \A c \in Callers : (Settled(c) /\ calls[c].preInit) => authInit

(***************************************************************************)
(* Properties of the session state holder                                  *)
(***************************************************************************)
Count(list, cb) == Cardinality({i \in 1..Len(list) : list[i] = cb})
Notifies == authInit' /\ (~authInit \/ authUser' # authUser)
Subscribes(cb) ==
  /\ ~Notifies
  /\ Len(authStateListeners') = Len(authStateListeners) + 1
  /\ authStateListeners'[Len(authStateListeners')] = cb

\* C9 as claimed: onAuthChange(cb) invokes cb once with the identity
\* getCurrentUser() reports; each notification invokes a callback once per
\* subscription it holds before and after the notification, with the new
\* identity; a callback that holds no subscription is not invoked.
C9_SubscriptionDelivery ==
  [][\A cb \in Callbacks :
       /\ Subscribes(cb) => delivered'[cb] = Append(delivered[cb], getCurrentUser)
       /\ (/\ Notifies
           /\ Count(authStateListeners, cb) > 0
           /\ Count(authStateListeners', cb) = Count(authStateListeners, cb))
          => delivered'[cb] =
               delivered[cb] \o Rep(authUser', Count(authStateListeners, cb))
       /\ (Count(authStateListeners, cb) = 0 /\ ~Subscribes(cb))
          => delivered'[cb] = delivered[cb]]_vars

(***************************************************************************)
(* Properties of the validation functions                                  *)
(***************************************************************************)
Validated == vout # Pending
TagsIn == Get(vin, "tags")
IsTagArray == TagsIn.t = "array"
EntriesWithinLength ==
  \A i \in 1..Len(TagsIn.v) :
    TagsIn.v[i].t = "string" /\ Len(TagsIn.v[i].v) <= maxTagLength
NonEmptyString(x) == x.v # <<>>
\* The entries that are non-empty after trimming, trimmed, in order
KeptTags == SelectSeq([i \in 1..Len(TagsIn.v) |-> Str(Trim(TagsIn.v[i].v))], NonEmptyString)
FieldsBeforeTags == {"title", "contentHtml", "status", "displayName", "nickname", "bio"}

\* C10 as claimed: a tag sequence longer than the max tag count whose
\* entries are strings within the max tag length never makes validation fail
\* for its length: a normal return carries the first max-count kept entries.
C10_LongTagsTruncated ==
  (Validated /\ IsTagArray /\ Len(TagsIn.v) > maxTagCount /\ EntriesWithinLength) =>
    /\ vout.msg # "too-many-tags"
    /\ vout.err = "none" => vout.val["tags"] = Arr(Slice(KeptTags, maxTagCount))

\* C10 as amended: a tag sequence longer than the max tag count always makes
\* validation fail, with the too-many-tags ValidationError unless a field
\* validated before the tags is rejected; for a sequence of at most max-count
\* string entries within the max tag length a normal return carries all the
\* entries that are non-empty after trimming, trimmed, in order.
C10_LongTagsRejected ==
  Validated =>
    /\ (IsTagArray /\ Len(TagsIn.v) > maxTagCount) =>
         /\ vout.err # "none"
         /\ vout.msg = "too-many-tags" \/ vout.msg \in FieldsBeforeTags
    /\ (IsTagArray /\ Len(TagsIn.v) <= maxTagCount /\ EntriesWithinLength
          /\ vout.err = "none") =>
         /\ vout.val["tags"] = Arr(KeptTags)
         /\ Len(KeptTags) <= maxTagCount

\* C10 witness: validation of a sequence of eleven one-character tags ended
\* with the too-many-tags error.
C10_Witness ==
  /\ Validated /\ IsTagArray /\ EntriesWithinLength
  /\ Len(TagsIn.v) = maxTagCount + 1
  /\ vout.err = "ValidationError" /\ vout.msg = "too-many-tags"

(***************************************************************************)
(* Properties of the upload mediator                                       *)
(***************************************************************************)
\* The step in which uploadImage is called
UploadStarts == upload.pc # "fetch" /\ upload' # upload

\* C11 as claimed: a call with a file whose type is not allowed fails with
\* InvalidFile, a call with a file larger than the maximum size fails with
\* FileTooLarge, neither sends a request, and a request is sent only for a
\* file that passes both checks.
C11_EachCheckFailsAlone ==
  [][UploadStarts =>
       LET f == upload'.file
       IN /\ (f # NoFile /\ f.type \notin allowedImageTypes) =>
               upload'.result = "InvalidFile" /\ requests' = requests
          /\ (f # NoFile /\ f.size > maxImageSize) =>
               upload'.result = "FileTooLarge" /\ requests' = requests
          /\ requests' # requests =>
               f # NoFile /\ f.type \in allowedImageTypes /\ f.size <= maxImageSize]_vars

\* C11 as amended: a call with a file whose type is not allowed fails with
\* InvalidFile, a call with a file of an allowed type larger than the
\* maximum size fails with FileTooLarge, neither sends a request, and a
\* request is sent only for a file that passes both checks.
C11_ChecksInOrder ==
  [][UploadStarts =>
       LET f == upload'.file
       IN /\ (f # NoFile /\ f.type \notin allowedImageTypes) =>
               upload'.result = "InvalidFile" /\ requests' = requests
          /\ (f # NoFile /\ f.type \in allowedImageTypes /\ f.size > maxImageSize) =>
               upload'.result = "FileTooLarge" /\ requests' = requests
          /\ requests' # requests =>
               f # NoFile /\ f.type \in allowedImageTypes /\ f.size <= maxImageSize]_vars

\* C11 witness: after one upload went to the image host, a file of an allowed
\* type and one byte too large was refused with FileTooLarge.
C11_Witness ==
  /\ upload.pc = "done" /\ upload.result = "FileTooLarge"
  /\ upload.file.type \in allowedImageTypes
  /\ upload.file.size = maxImageSize + 1
  /\ requests = 1

(***************************************************************************)
(* Properties of the stored fields                                         *)
(***************************************************************************)
PatchableFields == {"title", "contentHtml", "status", "tags", "coverUrl", "slug"}
\* Call c is an updatePost about to apply its patch to stored post id
Applies(c, id) ==
  /\ calls[c].pc = "write" /\ calls'[c].pc = "done"
  /\ calls[c].op = "updatePost"
  /\ calls[c].key = id

\* C12: a step that changes a stored post is the write of an updatePost
\* for that post; it changes only the fields the patch names among the six
\* patchable ones, and updatedAt, leaving authorId and createdAt alone; a
\* post enters the store with the uid of the creating call as authorId.
C12_PatchTouchesOnlyItsFields ==
  [][/\ \A id \in (DOMAIN posts) \cap (DOMAIN posts') :
          posts'[id] # posts[id] =>
            \E c \in Callers :
              /\ Applies(c, id)
              /\ calls'[c].result = "ok"
              /\ DOMAIN posts'[id] = DOMAIN posts[id] \cup DOMAIN calls[c].validated
              /\ \A k \in DOMAIN posts'[id] :
                   posts'[id][k] # Get(posts[id], k) =>
                     /\ k \in PatchableFields \cup {"updatedAt"}
                     /\ k \in PatchableFields => k \in DOMAIN calls[c].data
                     /\ posts'[id][k] = calls[c].validated[k]
                     /\ k = "updatedAt" => posts'[id][k] <= now
              /\ posts'[id]["authorId"] = posts[id]["authorId"]
              /\ posts'[id]["createdAt"] = posts[id]["createdAt"]
     /\ \A id \in (DOMAIN posts') \ (DOMAIN posts) :
          \E c \in Callers :
            /\ calls[c].pc = "write" /\ calls[c].op = "createPost"
            /\ posts'[id]["authorId"] = calls[c].user]_vars

\* C12 witness: a post created at one time by identity 1 has been retitled at
\* a later time by a patch that also named authorId and createdAt; it still
\* has its author and its creation time.
C12_Witness ==
  \E id \in DOMAIN posts : \E c \in Callers :
    /\ posts[id]["title"] = Str(TitleB)
    /\ posts[id]["updatedAt"] > posts[id]["createdAt"]
    /\ posts[id]["authorId"] = 1
    /\ Settled(c) /\ calls[c].op = "updatePost" /\ calls[c].result = "ok"
    /\ calls[c].user = 1

(***************************************************************************)
(* Properties of the life of a post                                        *)
(***************************************************************************)
\* The ids the store has generated so far
Generated == {PostId(n) : n \in 1..nextId}

\* C13: after every step each stored post has status draft or published,
\* a post that enters the store has an id generated in that step, and a
\* generated id that is no longer stored (its post has been deleted) does
\* not come back, whatever calls are still running.
C13_Lifecycle ==
  [][/\ \A id \in DOMAIN posts' : Get(posts'[id], "status") \in {Str(Draft), Str(Published)}
     /\ \A id \in (DOMAIN posts') \ (DOMAIN posts) : id = PostId(nextId + 1) /\ nextId' = nextId + 1
     /\ \A id \in Generated \ DOMAIN posts : id \notin DOMAIN posts']_vars

\* C13 witness: a post was deleted while an update of it that had already
\* read it was running; the update then failed and the post is not stored.
C13_Witness ==
  \E c, d \in Callers :
    /\ Settled(c) /\ calls[c].op = "deletePost" /\ calls[c].result = "ok"
    /\ Settled(d) /\ calls[d].op = "updatePost" /\ calls[d].result = "BackendError"
    /\ Found(c) /\ Found(d)
    /\ calls[c].existing["id"] = calls[d].existing["id"]
    /\ calls[d].key = calls[d].existing["id"]
    /\ calls[d].key \in Generated \ DOMAIN posts

(***************************************************************************)
(* Properties of the order of the steps within a call                      *)
(***************************************************************************)
\* The steps a writing call has started so far, with those of its outcome
\* that matter here: the identity fails the guard of the operation
WritingCalls ==
  {[steps |-> calls[c].steps, op |-> calls[c].op, pc |-> calls[c].pc,
    result |-> calls[c].result, invalidArgs |-> calls[c].invalidArgs,
    refused |-> calls[c].user \notin ADMIN_UIDS] :
      c \in {d \in Callers : calls[d].op \in {"createPost", "updatePost"}}}
  \cup
  {[steps |-> pcalls[c].steps, op |-> pcalls[c].op, pc |-> pcalls[c].pc,
    result |-> pcalls[c].result, invalidArgs |-> pcalls[c].invalidArgs,
    refused |-> pcalls[c].uid = NoUser] :
      c \in {d \in Callers : pcalls[d].op = "updateMyProfile"}}

ClaimedOrder == <<"validate", "auth", "slug", "persist">>
CodeOrder == <<"auth", "validate", "slug", "persist">>
RankIn(order, name) == CHOOSE i \in 1..Len(order) : order[i] = name
\* The steps of `order` appear in `steps` in that order
FollowsOrder(steps, order) ==
  \A i, j \in 1..Len(steps) :
    (i < j /\ steps[i] \in Range(order) /\ steps[j] \in Range(order)) =>
      RankIn(order, steps[i]) < RankIn(order, steps[j])
LastStep(steps) == steps[Len(steps)]

\* C14 as claimed: the steps of a call start in the order validation,
\* authorization check, slug query, persistence, and a settled call whose
\* fields validation rejects has failed with the validation error without the
\* authorization check having been consulted, whoever the caller is.
C14_ValidationFirst ==
  \A r \in WritingCalls :
    /\ FollowsOrder(r.steps, ClaimedOrder)
    /\ (r.pc = "done" /\ r.invalidArgs) =>
         r.result \in ValidationErrors /\ "auth" \notin Range(r.steps)

\* C14 as amended: the steps of a call start in the order authorization
\* check, validation, slug query, persistence; a step is started only after
\* the steps before it have succeeded; a settled call of a caller the guard
\* refuses has failed with Unauthenticated or Forbidden with no later step
\* started, whatever its fields; and a validation error is the outcome of a
\* call whose last started step is the validation.
C14_AuthorizationFirst ==
  \A r \in WritingCalls :
    /\ FollowsOrder(r.steps, CodeOrder)
    /\ r.steps # <<>> /\ r.steps[1] = "auth"
    /\ \A i \in 1..Len(r.steps) :
         r.steps[i] \in {"slug", "persist"} => "validate" \in Range(SubSeq(r.steps, 1, i - 1))
    /\ (r.pc = "done" /\ r.refused) =>
         r.steps = <<"auth">> /\ r.result \in {"Unauthenticated", "Forbidden"}
    /\ (r.pc = "done" /\ r.result \in ValidationErrors) =>
         r.invalidArgs /\ ~r.refused /\ LastStep(r.steps) = "validate"
    /\ (r.pc = "done" /\ r.invalidArgs /\ "validate" \in Range(r.steps)) =>
         r.result \in ValidationErrors
    /\ (r.pc = "done" /\ r.result = "SlugConflict") => LastStep(r.steps) = "slug"
    /\ (r.pc = "done" /\ r.result = "ok") => LastStep(r.steps) = "persist"

\* C14 witness: a createPost with a rejected title by an identity outside the
\* allow-list failed with Forbidden, an updateMyProfile with a rejected
\* display name made with no identity failed with Unauthenticated, neither
\* having started its validation.
C14_Witness ==
  \E c, d \in Callers :
    /\ Settled(c) /\ calls[c].op = "createPost" /\ calls[c].invalidArgs
    /\ calls[c].result = "Forbidden" /\ calls[c].steps = <<"auth">>
    /\ pcalls[d].pc = "done" /\ pcalls[d].op = "updateMyProfile" /\ pcalls[d].invalidArgs
    /\ pcalls[d].result = "Unauthenticated" /\ pcalls[d].steps = <<"auth">>

(***************************************************************************)
(* Properties of validateProfileData as a function                         *)
(***************************************************************************)
\* C15: validateProfileData accepts every output it returns, and returns it
\* unchanged: the same fields with the same values.
C15_ProfileValidationIdempotent ==
  (Validated /\ vmode = "profile" /\ vout.err = "none") =>
    /\ validateProfileData(vout.val).err = "none"
    /\ validateProfileData(vout.val).val = vout.val
    /\ DOMAIN validateProfileData(vout.val).val = DOMAIN vout.val

\* C15 witness: an input whose display name, tags and photo URL were all
\* changed by validation (trimmed, or dropped as empty) has been accepted.
C15_Witness ==
  /\ Validated /\ vmode = "profile" /\ vout.err = "none"
  /\ {"displayName", "bio", "tags", "photoURL"} \subseteq DOMAIN vout.val
  /\ vout.val["displayName"] # vin["displayName"]
  /\ vout.val["tags"] # vin["tags"]
  /\ vout.val["photoURL"] # vin["photoURL"]

(***************************************************************************)
(* Properties of the stored profiles                                       *)
(***************************************************************************)
\* C16 as claimed: a step that changes the stored profile of uid v is the
\* write of an updateMyProfile call made while v was the authenticated
\* identity, and merges the validated fields into it; a profile that enters
\* the store is written by a call made for that uid; no profile leaves the
\* store.
C16_ProfileChangedOnlyByOwnerUpdate ==
  [][/\ \A v \in DOMAIN profiles :
          /\ v \in DOMAIN profiles'
          /\ profiles'[v] # profiles[v] =>
               \E c \in Callers :
                 /\ pcalls[c].pc = "write" /\ pcalls'[c].pc = "done"
                 /\ pcalls[c].op = "updateMyProfile"
                 /\ pcalls[c].uid = v
                 /\ profiles'[v] = Merge(profiles[v], pcalls[c].validated)
     /\ \A v \in (DOMAIN profiles') \ (DOMAIN profiles) :
          \E c \in Callers :
            /\ pcalls[c].pc = "write" /\ pcalls'[c].pc = "done"
            /\ pcalls[c].uid = v]_vars

(***************************************************************************)
(* Properties of a notification reaching the subscribed callbacks          *)
(***************************************************************************)
\* C17 as claimed: a notification invokes every callback subscribed when
\* it starts once per subscription with the new identity, callbacks that
\* unsubscribe themselves during the notification included.
C17_EverySubscriberNotified ==
  [][Notifies =>
       \A cb \in Range(authStateListeners) :
         /\ Len(delivered'[cb]) = Len(delivered[cb]) + Count(authStateListeners, cb)
         /\ \A i \in (Len(delivered[cb]) + 1)..Len(delivered'[cb]) :
              delivered'[cb][i] = currentUser']_vars

(***************************************************************************)
(* Properties of generateSlug                                              *)
(***************************************************************************)
\* C18 as claimed: generateSlug(title) is the empty string or a string of
\* at most 50 characters that isValidSlug accepts, and validatePostData
\* accepts it as the slug field.
C18_GeneratedSlugIsValid ==
  (vmode = "slug" /\ vout # Pending) =>
    LET slug == vout.val.v
    IN /\ Len(slug) <= SlugMaxLength
       /\ slug = <<>> \/ isValidSlug(slug)
       /\ validatePostData(("slug" :> Str(slug)), TRUE).err = "none"

====
